---- MODULE Spec2Model ----
(***************************************************************************)
(* A model of the client side of two GNUnet service protocols of gnunet-rs: *)
(* the GNS lookup protocol (src/src/gns/mod.rs) and the identity            *)
(* synchronisation and query protocol (src/src/identity/mod.rs).            *)
(*                                                                          *)
(* The service is the environment: every frame a read returns is chosen     *)
(* freely from a small set of frames, and the channel may be closed at any  *)
(* time.  Each promise callback of the program is one step of the model.    *)
(***************************************************************************)
EXTENDS Integers, Sequences, FiniteSets, TLC

(***************************************************************************)
(* Bounds of the model.                                                     *)
(***************************************************************************)
\* Largest number of queries in one GNS::lookup batch.
MaxBatch == 2
\* Number of GNS::lookup calls made on one GNS handle.
MaxCalls == 2
\* Largest number of frames the service streams during identity sync.
MaxSync == 3
\* Number of IdentityService::get_default_ego calls made on one handle.
MaxGets == 2

(***************************************************************************)
(* Program constants.                                                       *)
(***************************************************************************)
\* ll::GNUNET_DNSPARSER_MAX_NAME_LENGTH, the bound tested by GNS::lookup.
GNUNET_DNSPARSER_MAX_NAME_LENGTH == 253
\* The largest value of u16: (8 + name_len + 1).to_u16() is None above it.
U16Max == 65535
\* The fixed part of a GET_DEFAULT frame: 8 bytes (header and two u16).
GetDefaultFixed == 8
\* The largest value of u32, the type of GNS.lookup_id.  A u32 is kept as the
\* signed 32-bit integer with the same bits, the width of the integers of
\* the model checker: values from 2^31 on are negative, and 4294967295, all
\* bits set, is -1.
U32Max == -1

VARIABLES
    lookup_id,      \* GNS.lookup_id: the next correlation id
    gns_open,       \* the GNS channel is connected
    gns_written,    \* the LOOKUP frames written to the GNS channel, in order
    calls,          \* the GNS::lookup calls made so far, each with its promise
    overflow_checks, \* the build panics on integer overflow (else it wraps)
    master,         \* the lookup_in_master call: its phase, arguments, outcome
    id_pc,          \* IdentityService::connect: "start", "sync", "connected", "failed"
    id_open,        \* the identity channel is connected
    id_sent,        \* the frames written to the identity channel, in order
    egos,           \* IdentityService.egos: the mirror, id -> Ego
    id_err,         \* the error connect failed with
    sync_log,       \* the frames parse_egos has read, in order
    gets,           \* the number of get_default_ego calls made so far
    get             \* the latest get_default_ego call: its name and outcome

gnsVars == <<lookup_id, gns_open, gns_written, calls, overflow_checks, master>>
idVars == <<id_pc, id_open, id_sent, egos, id_err, sync_log, gets, get>>
vars == <<lookup_id, gns_open, gns_written, calls, overflow_checks, master,
          id_pc, id_open, id_sent, egos, id_err, sync_log, gets, get>>

(***************************************************************************)
(* Results of promises and calls: pending, a success value, an error value, *)
(* or a panic (a failed assertion, index or unwrap).                        *)
(***************************************************************************)
Pending == [kind |-> "pending", err |-> "", arg |-> "", val |-> <<>>]
Ok(v) == [kind |-> "ok", err |-> "", arg |-> "", val |-> v]
Err(e, a) == [kind |-> "err", err |-> e, arg |-> a, val |-> <<>>]
Panic(what) == [kind |-> "panic", err |-> what, arg |-> "", val |-> <<>>]

EmptyMap == [x \in {} |-> <<>>]

\* HashMap::insert: the entry under k is replaced.
MapInsert(m, k, v) == [x \in DOMAIN m \cup {k} |-> IF x = k THEN v ELSE m[x]]

\* The orders in which a HashMap with key set S may be iterated.
Orders(S) ==
    {o \in [1..Cardinality(S) -> S] : \A i, j \in DOMAIN o : o[i] = o[j] => i = j}

(***************************************************************************)
(* GNS: src/src/gns/mod.rs                                                  *)
(***************************************************************************)
\* The queries a caller passes: a name and its length in bytes, the longest
\* name GNS::lookup accepts and the shortest it rejects, with the zone to
\* look in and the lookup options.
Queries ==
    { [name |-> "longest", len |-> GNUNET_DNSPARSER_MAX_NAME_LENGTH,
       zone |-> 0, options |-> "Default"],
      [name |-> "toolong", len |-> GNUNET_DNSPARSER_MAX_NAME_LENGTH + 1,
       zone |-> 0, options |-> "Default"] }

\* The batches a caller passes to GNS::lookup: one to MaxBatch queries.
Batches == UNION {[1..n -> Queries] : n \in 1..MaxBatch}

\* Wrapping addition of a small k >= 0 to the u32 v: on the signed encoding
\* it is +, and passes from U32Max to 0.
U32Add(v, k) == v + k

\* The order of two u32 by value: the negative encodings are the larger
\* values.
U32Less(a, b) == IF (a < 0) = (b < 0) THEN a < b ELSE b < 0

\* The correlation ids issued by call i: `issued` ids from start_id on, in
\* u32 arithmetic.
Ids(i) == {U32Add(calls[i].start_id, k) : k \in 0..(calls[i].issued - 1)}

\* The ids a LOOKUP_RESULT frame may carry: every id issued by the calls, and
\* one that was not issued yet.
FrameIds == UNION {Ids(i) : i \in DOMAIN calls} \cup {lookup_id}

\* The record lists a LOOKUP_RESULT frame may carry (rd_count = 0 and 2).
RecLists == { <<>>, <<"r1", "r2">> }

\* The frames the GNS service may send.  ok = FALSE is a LOOKUP_RESULT whose
\* body ends before the declared fields and records do.
GnsFrames ==
    [tpe : {"LOOKUP_RESULT"}, id : FrameIds, recs : RecLists, ok : {TRUE}]
    \cup { [tpe |-> "LOOKUP_RESULT", id |-> 0, recs |-> <<>>, ok |-> FALSE],
           [tpe |-> "LOOKUP", id |-> 0, recs |-> <<>>, ok |-> TRUE] }

\* LookupMessage::new: the frame of one request (the fields the model needs).
LookupMessage(id, x) ==
    [tpe |-> "LOOKUP", id |-> id, zone |-> x.zone, options |-> x.options,
     name |-> x.name]

\* SendWithStr with the message struct written without the name after it.
SendWithStrStructOnly(open, written, msg) ==
    IF open
    THEN [written |-> Append(written, [msg EXCEPT !.name = ""]),
          res |-> Ok(<<>>)]
    ELSE [written |-> written, res |-> Err("Io", "")]

\* ServiceWriter::send_with_str: one whole frame is written, or the write
\* fails on a closed channel.
SendWithStr(open, written, msg) ==
    IF open
    THEN [written |-> Append(written, msg), res |-> Ok(<<>>)]
    ELSE [written |-> written, res |-> Err("Io", "")]

\* The closure GNS::lookup maps over the queries, applied to query x in
\* state st = [lookup_id, issued, written, promises, panic].  lookup_id += 1
\* at the largest u32 panics in a build with overflow checks, and the panic
\* unwinds out of GNS::lookup; without the checks it wraps to 0.
WriteQuery(open, st, x) ==
    IF st.panic THEN st
    ELSE IF x.len > GNUNET_DNSPARSER_MAX_NAME_LENGTH
    THEN [st EXCEPT !.promises = Append(@, Err("NameTooLong", x.name))]
    ELSE IF st.lookup_id = U32Max /\ overflow_checks
    THEN [st EXCEPT !.panic = TRUE]
    ELSE LET id == st.lookup_id
             w == SendWithStr(open, st.written, LookupMessage(id, x))
         IN [st EXCEPT !.lookup_id = U32Add(id, 1),
                       !.issued = @ + 1,
                       !.written = w.written,
                       !.promises = Append(@, w.res)]

\* The iterator write_promises, consumed by Promise::all: the closure runs
\* once per query, in order.
RECURSIVE WritePromises(_, _, _, _)
WritePromises(open, st, query, i) ==
    IF i > Len(query) THEN st
    ELSE WritePromises(open, WriteQuery(open, st, query[i]), query, i + 1)

\* Promise::all: fails with the first failed promise, else succeeds.
PromiseAll(promises) ==
    IF \E i \in DOMAIN promises : promises[i].kind = "err"
    THEN promises[CHOOSE i \in DOMAIN promises :
                      /\ promises[i].kind = "err"
                      /\ \A j \in 1..(i - 1) : promises[j].kind # "err"]
    ELSE Ok(<<>>)

\* ParseLookupResult with a frame of another type skipped.
ParseLookupResultSkipOther(f, hashmap) ==
    IF f.tpe = "LOOKUP_RESULT"
    THEN IF ~f.ok
         THEN [res |-> Err("Io", ""), hashmap |-> hashmap]
         ELSE [res |-> Ok(<<>>),
               hashmap |-> IF f.recs # <<>>
                           THEN MapInsert(hashmap, f.id, f.recs)
                           ELSE hashmap]
    ELSE [res |-> Ok(<<>>), hashmap |-> hashmap]

\* ParseLookupResult with an empty record list inserted like any other.
ParseLookupResultKeepEmpty(f, hashmap) ==
    IF f.tpe = "LOOKUP_RESULT"
    THEN IF ~f.ok
         THEN [res |-> Err("Io", ""), hashmap |-> hashmap]
         ELSE [res |-> Ok(<<>>), hashmap |-> MapInsert(hashmap, f.id, f.recs)]
    ELSE [res |-> Err("InvalidType", f.tpe), hashmap |-> hashmap]

\* GNS::parse_lookup_result on frame f with accumulator hashmap.
ParseLookupResult(f, hashmap) ==
    IF f.tpe = "LOOKUP_RESULT"
    THEN IF ~f.ok
         THEN [res |-> Err("Io", ""), hashmap |-> hashmap]
         ELSE [res |-> Ok(<<>>),
               hashmap |-> IF f.recs # <<>>
                           THEN MapInsert(hashmap, f.id, f.recs)
                           ELSE hashmap]
    ELSE [res |-> Err("InvalidType", f.tpe), hashmap |-> hashmap]

\* The closure GNS::lookup maps over the finished accumulator: hm is walked
\* in the order `order`, each id asserted equal to a u32 counter that starts
\* at start_id and is incremented after each assertion.
CollectResults(hm, start_id, order) ==
    LET counter(k) == U32Add(start_id, k - 1)
        unequal == {k \in DOMAIN order : order[k] # counter(k)}
        overflow == {k \in DOMAIN order :
                        overflow_checks /\ counter(k) = U32Max}
        first(S) == CHOOSE k \in S : \A j \in S : k <= j
    IN IF unequal \cup overflow = {}
       THEN Ok([k \in DOMAIN order |-> hm[order[k]]])
       ELSE IF first(unequal \cup overflow) \in unequal
            THEN Panic("assert_eq")
            ELSE Panic("overflow")

\* LookupLoop with a failed read retried instead of propagated.
LookupLoopRetry(c, rd, order) ==
    IF ~rd.ok
    THEN c
    ELSE LET p == ParseLookupResult(rd.frame, c.hm)
             d == IF rd.frame.tpe = "LOOKUP_RESULT" THEN c
                  ELSE [c EXCEPT !.other_tpe = rd.frame.tpe]
         IN IF p.res.kind = "err"
            THEN [d EXCEPT !.pc = "done", !.result = p.res]
            ELSE IF p.hashmap = EmptyMap
                 THEN [d EXCEPT !.hm = p.hashmap]
                 ELSE [d EXCEPT !.pc = "done",
                                !.hm = p.hashmap,
                                !.result = CollectResults(p.hashmap, c.start_id, order)]

\* One turn of GNS::lookup_loop for call c: rd is what read_message gave
\* ([ok, frame]); order is the iteration order of the finished map.  The
\* type of a frame that is no LOOKUP_RESULT is noted in other_tpe.
LookupLoop(c, rd, order) ==
    IF ~rd.ok
    THEN [c EXCEPT !.pc = "done", !.result = Err("ReadMessage", "")]
    ELSE LET p == ParseLookupResult(rd.frame, c.hm)
             d == IF rd.frame.tpe = "LOOKUP_RESULT" THEN c
                  ELSE [c EXCEPT !.other_tpe = rd.frame.tpe]
         IN IF p.res.kind = "err"
            THEN [d EXCEPT !.pc = "done", !.result = p.res]
            ELSE IF p.hashmap = EmptyMap
                 THEN [d EXCEPT !.hm = p.hashmap]
                 ELSE [d EXCEPT !.pc = "done",
                                !.hm = p.hashmap,
                                !.result = CollectResults(p.hashmap, c.start_id, order)]

\* The closure the convenience function gns::lookup maps over the result of
\* GNS::lookup: result.pop().unwrap().pop().unwrap(), the last record of the
\* last list; an error passes through.
SingleShot(res) ==
    IF res.kind # "ok" THEN res
    ELSE IF res.val = <<>> THEN Panic("unwrap")
    ELSE LET last == res.val[Len(res.val)]
         IN IF last = <<>> THEN Panic("unwrap")
            ELSE Ok(last[Len(last)])

\* The calls whose lookup_loop has a read_message outstanding on its clone
\* of the handle's reader.
Readers == {i \in DOMAIN calls : calls[i].pc = "reading"}

\* GNS::lookup(query): the writes are issued, and the promise either fails
\* with the first failed write promise or starts lookup_loop; a panic
\* while the writes are issued ends the call.
Lookup(query) ==
    /\ Len(calls) < MaxCalls
    /\ LET st == WritePromises(gns_open,
                               [lookup_id |-> lookup_id,
                                issued |-> 0,
                                written |-> gns_written,
                                promises |-> <<>>,
                                panic |-> FALSE],
                               query, 1)
           all == IF st.panic THEN Panic("overflow")
                  ELSE PromiseAll(st.promises)
       IN /\ lookup_id' = st.lookup_id
          /\ gns_written' = st.written
          /\ calls' = Append(calls,
                [query |-> query,
                 start_id |-> lookup_id,
                 issued |-> st.issued,
                 pc |-> IF all.kind \in {"err", "panic"} THEN "done"
                        ELSE "reading",
                 hm |-> EmptyMap,
                 other_tpe |-> "",
                 result |-> IF all.kind \in {"err", "panic"} THEN all
                            ELSE Pending])
    /\ UNCHANGED <<gns_open, overflow_checks, master, idVars>>

\* The read of lookup_loop of call i completes, with a frame or a failure.
LookupLoopRead(i) ==
    /\ i \in DOMAIN calls
    /\ calls[i].pc = "reading"
    /\ \E f \in GnsFrames :
       \E order \in Orders(DOMAIN ParseLookupResult(f, calls[i].hm).hashmap) :
          calls' = [calls EXCEPT ![i] =
                       LookupLoop(@, [ok |-> gns_open, frame |-> f], order)]
    /\ UNCHANGED <<lookup_id, gns_open, gns_written, overflow_checks, master,
                   idVars>>

\* The GNS channel is lost.
GnsDisconnect ==
    /\ gns_open
    /\ gns_open' = FALSE
    /\ UNCHANGED <<lookup_id, gns_written, calls, overflow_checks, master,
                   idVars>>

(***************************************************************************)
(* Identity: src/src/identity/mod.rs                                        *)
(***************************************************************************)
\* The private keys the service may put on the wire, as numbers.
Keys == {1, 2}

\* EcdsaPrivateKey::get_public and EcdsaPublicKey::hash: opaque and
\* injective maps of keys to keys and of keys to hash codes.
GetPublic(pk) == pk + 10
HashOf(pub) == 2 * pub + 100

\* A name whose bytes are not valid UTF-8.
BadUtf8 == "\\xff"
EgoNames == {"alice", "bob", BadUtf8}

\* The frames the identity service may send during sync.  body tells how far
\* the body extends: "short" ends before name_len and end_of_list_flag,
\* "nokey" holds those two but ends inside the private key, "full" holds the
\* key and the name.
SyncFrames ==
    [tpe : {"UPDATE"}, body : {"full"}, eol : {0}, key : Keys, name : EgoNames]
    \cup { [tpe |-> "UPDATE", body |-> "full", eol |-> 1, key |-> 1, name |-> "alice"],
           [tpe |-> "UPDATE", body |-> "nokey", eol |-> 1, key |-> 1, name |-> "alice"],
           [tpe |-> "UPDATE", body |-> "nokey", eol |-> 0, key |-> 1, name |-> "alice"],
           [tpe |-> "UPDATE", body |-> "short", eol |-> 0, key |-> 1, name |-> "alice"],
           [tpe |-> "RESULT_CODE", body |-> "full", eol |-> 0, key |-> 1, name |-> "alice"],
           [tpe |-> "SET_DEFAULT", body |-> "full", eol |-> 0, key |-> 1, name |-> "alice"] }

\* The Ego parse_egos builds from a private key and a name.  The field
\* name is an Option<String>: <<n>> is Some(n) and <<>> is None.
MakeEgo(pk, name) ==
    [pk |-> pk, name |-> <<name>>, id |-> HashOf(GetPublic(pk))]

\* InsertEgo with an entry already in the mirror kept as it is.
InsertEgoKeepFirst(m, pk, name) ==
    IF HashOf(GetPublic(pk)) \in DOMAIN m THEN m
    ELSE MapInsert(m, HashOf(GetPublic(pk)), MakeEgo(pk, name))

\* InsertEgo with the entry keyed by the hash of the private key instead of
\* the hash of the public key derived from it.
InsertEgoHashPrivate(m, pk, name) == MapInsert(m, HashOf(pk), MakeEgo(pk, name))

\* egos.insert(id.clone(), Ego { pk, name: Some(name), id }).
InsertEgo(m, pk, name) == MapInsert(m, HashOf(GetPublic(pk)), MakeEgo(pk, name))

\* ParseEgos with a frame of another type skipped instead of rejected.
ParseEgosSkipOther(st, rd) ==
    IF ~rd.ok
    THEN [st EXCEPT !.pc = "failed", !.err = Err("ReadMessage", "")]
    ELSE LET f == rd.frame
         IN IF f.tpe = "UPDATE"
            THEN IF f.body = "short"
                 THEN [st EXCEPT !.pc = "failed", !.err = Err("Io", "")]
                 ELSE IF f.eol # 0
                 THEN [st EXCEPT !.pc = "connected"]
                 ELSE IF f.body = "nokey"
                 THEN [st EXCEPT !.pc = "failed", !.err = Err("Io", "")]
                 ELSE IF f.name = BadUtf8
                 THEN [st EXCEPT !.pc = "failed", !.err = Err("InvalidName", "")]
                 ELSE [st EXCEPT !.egos = InsertEgo(st.egos, f.key, f.name)]
            ELSE st

\* ParseEgos with end_of_list_flag tested only after the key and the name
\* were parsed and the ego inserted.
ParseEgosLateEol(st, rd) ==
    IF ~rd.ok
    THEN [st EXCEPT !.pc = "failed", !.err = Err("ReadMessage", "")]
    ELSE LET f == rd.frame
         IN IF f.tpe = "UPDATE"
            THEN IF f.body # "full"
                 THEN [st EXCEPT !.pc = "failed", !.err = Err("Io", "")]
                 ELSE IF f.name = BadUtf8
                 THEN [st EXCEPT !.pc = "failed", !.err = Err("InvalidName", "")]
                 ELSE [st EXCEPT !.egos = InsertEgo(st.egos, f.key, f.name),
                                 !.pc = IF f.eol # 0 THEN "connected" ELSE st.pc]
            ELSE [st EXCEPT !.pc = "failed",
                            !.err = Err("UnexpectedMessageType", f.tpe)]

\* One turn of IdentityService::parse_egos: rd is what read_message gave
\* ([ok, frame]), st = [pc, egos, err] the state of connect.
ParseEgos(st, rd) ==
    IF ~rd.ok
    THEN [st EXCEPT !.pc = "failed", !.err = Err("ReadMessage", "")]
    ELSE LET f == rd.frame
         IN IF f.tpe = "UPDATE"
            THEN IF f.body = "short"
                 THEN [st EXCEPT !.pc = "failed", !.err = Err("Io", "")]
                 ELSE IF f.eol # 0
                 THEN [st EXCEPT !.pc = "connected"]
                 ELSE IF f.body = "nokey"
                 THEN [st EXCEPT !.pc = "failed", !.err = Err("Io", "")]
                 ELSE IF f.name = BadUtf8
                 THEN [st EXCEPT !.pc = "failed", !.err = Err("InvalidName", "")]
                 ELSE [st EXCEPT !.egos = InsertEgo(st.egos, f.key, f.name)]
            ELSE [st EXCEPT !.pc = "failed",
                            !.err = Err("UnexpectedMessageType", f.tpe)]

\* Connect with the synchronization entered without the START frame.
ConnectNoStart(connected) ==
    /\ id_pc = "start"
    /\ IF ~connected
       THEN /\ id_pc' = "failed"
            /\ id_err' = Err("Connect", "")
       ELSE IF ~id_open
       THEN /\ id_pc' = "failed"
            /\ id_err' = Err("Io", "")
       ELSE /\ id_pc' = "sync"
            /\ UNCHANGED id_err
    /\ UNCHANGED <<id_sent, id_open, egos, sync_log, gets, get, gnsVars>>

\* IdentityService::connect up to the first read: service::connect, then
\* the START frame is written.
Connect(connected) ==
    /\ id_pc = "start"
    /\ IF ~connected
       THEN /\ id_pc' = "failed"
            /\ id_err' = Err("Connect", "")
            /\ UNCHANGED id_sent
       ELSE IF ~id_open
       THEN /\ id_pc' = "failed"
            /\ id_err' = Err("Io", "")
            /\ UNCHANGED id_sent
       ELSE /\ id_pc' = "sync"
            /\ id_sent' = Append(id_sent, [tpe |-> "START", name |-> ""])
            /\ UNCHANGED id_err
    /\ UNCHANGED <<id_open, egos, sync_log, gets, get, gnsVars>>

\* The read of parse_egos completes, with frame f or a failure.
ParseEgosRead(f) ==
    /\ id_pc = "sync"
    /\ Len(sync_log) < MaxSync
    /\ LET st == ParseEgos([pc |-> id_pc, egos |-> egos, err |-> id_err],
                          [ok |-> id_open, frame |-> f])
       IN /\ id_pc' = st.pc
          /\ egos' = st.egos
          /\ id_err' = st.err
    /\ sync_log' = IF id_open THEN Append(sync_log, f) ELSE sync_log
    /\ UNCHANGED <<id_open, id_sent, gets, get, gnsVars>>

\* The identity channel is lost.
IdDisconnect ==
    /\ id_open
    /\ id_open' = FALSE
    /\ UNCHANGED <<id_pc, id_sent, egos, id_err, sync_log, gets, get, gnsVars>>

\* The service names passed to get_default_ego, with their length in bytes:
\* the longest that fits one frame and the shortest that does not.
ServiceNames ==
    { [name |-> "gns-master", len |-> 10],
      [name |-> "longest", len |-> U16Max - GetDefaultFixed - 1],
      [name |-> "toolong", len |-> U16Max - GetDefaultFixed] }

\* The frames the identity service may send in reply to GET_DEFAULT.  body
\* tells how far the body extends: "short" ends before the first field (the
\* result code of RESULT_CODE, reply_name_len of SET_DEFAULT),
\* "len" holds reply_name_len only, "nokey" ends inside the private key,
\* "noname" ends inside the name, "full" holds everything.
ReplyFrame(tpe, body, code, name_len, zero, key, name) ==
    [tpe |-> tpe, body |-> body, code |-> code, name_len |-> name_len,
     zero |-> zero, key |-> key, name |-> name]

\* The reply field of a call that read no frame.
NoReply == ReplyFrame("", "short", 0, 0, 0, 1, "")

ReplyFrames ==
    { ReplyFrame("SET_DEFAULT", "full", 0, 1, 0, k, n) :
          k \in Keys, n \in {"gns-master", "other"} }
    \cup { ReplyFrame("RESULT_CODE", "full", code, 0, 0, 1, "no default ego") :
              code \in {0, 1} }
    \cup { ReplyFrame("SET_DEFAULT", "short", 0, 1, 0, 1, "gns-master"),
           ReplyFrame("SET_DEFAULT", "full", 0, 0, 0, 1, "gns-master"),
           ReplyFrame("SET_DEFAULT", "len", 0, 1, 0, 1, "gns-master"),
           ReplyFrame("SET_DEFAULT", "full", 0, 1, 1, 1, "gns-master"),
           ReplyFrame("SET_DEFAULT", "nokey", 0, 1, 0, 1, "gns-master"),
           ReplyFrame("SET_DEFAULT", "noname", 0, 1, 0, 1, "gns-master"),
           ReplyFrame("RESULT_CODE", "short", 1, 0, 0, 1, "no default ego"),
           ReplyFrame("RESULT_CODE", "full", 1, 0, 0, 1, BadUtf8),
           ReplyFrame("RESULT_CODE", "noname", 1, 0, 0, 1, "no default ego"),
           ReplyFrame("UPDATE", "full", 0, 1, 0, 1, "alice") }

\* The RESULT_CODE arm with result code 0 taken for success.
MatchResultCodeZeroOk(f) ==
    IF f.body = "short" THEN Err("Io", "")
    ELSE IF f.code = 0 THEN Ok(MakeEgo(f.key, ""))
    ELSE IF f.body = "noname" THEN Err("Disconnected", "")
    ELSE IF f.name = BadUtf8 THEN Err("MalformedErrorResponse", "")
    ELSE Err("ServiceResponse", f.name)

\* The RESULT_CODE arm of get_default_ego: the result code is read and
\* dropped, the message is read up to its NUL and returned as the error.
MatchResultCode(f) ==
    IF f.body = "short" THEN Err("Io", "")
    ELSE IF f.body = "noname" THEN Err("Disconnected", "")
    ELSE IF f.name = BadUtf8 THEN Err("MalformedErrorResponse", "")
    ELSE Err("ServiceResponse", f.name)

\* The SET_DEFAULT arm of get_default_ego(name); m is the mirror.
MatchSetDefault(name, f, m) ==
    IF f.body = "short" THEN Err("Io", "")
    ELSE IF f.name_len = 0 THEN Err("InvalidResponse", "")
    ELSE IF f.body = "len" THEN Err("Io", "")
    ELSE IF f.zero # 0 THEN Err("InvalidResponse", "")
    ELSE IF f.body = "nokey" THEN Err("Io", "")
    ELSE IF f.body = "noname" THEN Err("ReceiveName", "")
    ELSE IF f.name = name
         THEN LET id == HashOf(GetPublic(f.key))
              IN IF id \in DOMAIN m THEN Ok(m[id]) ELSE Panic("index")
         ELSE Err("InvalidResponse", "")

\* MatchReply with the other types reported the way connect reports them.
MatchReplyOtherUnexpected(name, f, m) ==
    IF f.tpe = "RESULT_CODE" THEN MatchResultCode(f)
    ELSE IF f.tpe = "SET_DEFAULT" THEN MatchSetDefault(name, f, m)
    ELSE Err("UnexpectedMessageType", f.tpe)

\* The match on the reply of get_default_ego(name): f is the frame read,
\* m the mirror.
MatchReply(name, f, m) ==
    IF f.tpe = "RESULT_CODE" THEN MatchResultCode(f)
    ELSE IF f.tpe = "SET_DEFAULT" THEN MatchSetDefault(name, f, m)
    ELSE Err("InvalidResponse", "")

\* ToU16 as a truncating cast: every length converts.
ToU16Wrap(n) == [some |-> TRUE, v |-> n % (U16Max + 1)]

\* to_u16() of the frame length: None when it does not fit 16 bits.
ToU16(n) == IF n <= U16Max THEN [some |-> TRUE, v |-> n]
                           ELSE [some |-> FALSE, v |-> 0]

\* IdentityService::get_default_ego(name) but for the mirror: the length
\* check, the GET_DEFAULT frame, the blocking read of the reply f and the
\* match on it.  `lost` tells that the channel is lost between the write and
\* the read.
GetDefaultEgoCall(x, f, lost) ==
    /\ id_pc = "connected"
    /\ gets < MaxGets
    /\ gets' = gets + 1
    /\ IF ~ToU16(GetDefaultFixed + x.len + 1).some
       THEN /\ get' = [name |-> x.name, sent |-> FALSE, read |-> FALSE,
                       reply |-> NoReply,
                       result |-> Err("NameTooLong", x.name)]
            /\ UNCHANGED <<id_sent, id_open>>
       ELSE IF ~id_open
       THEN /\ get' = [name |-> x.name, sent |-> FALSE, read |-> FALSE,
                       reply |-> NoReply,
                       result |-> Err("Io", "")]
            /\ UNCHANGED <<id_sent, id_open>>
       ELSE /\ id_sent' = Append(id_sent, [tpe |-> "GET_DEFAULT", name |-> x.name])
            /\ id_open' = ~lost
            /\ get' = [name |-> x.name, sent |-> TRUE, read |-> ~lost,
                       reply |-> IF lost THEN NoReply ELSE f,
                       result |-> IF lost THEN Err("ReadMessage", "")
                                  ELSE MatchReply(x.name, f, egos)]
    /\ UNCHANGED <<id_pc, id_err, sync_log, gnsVars>>

\* get_default_ego that also stores the ego of a SET_DEFAULT reply in the
\* mirror.
GetDefaultEgoStoring(x, f, lost) ==
    /\ GetDefaultEgoCall(x, f, lost)
    /\ egos' = IF get'.read /\ f.tpe = "SET_DEFAULT" /\ f.body = "full"
               THEN InsertEgo(egos, f.key, f.name)
               ELSE egos

\* IdentityService::get_default_ego(name): the call takes &mut self and
\* assigns nothing to self.egos.
GetDefaultEgo(x, f, lost) ==
    /\ GetDefaultEgoCall(x, f, lost)
    /\ UNCHANGED egos

(***************************************************************************)
(* gns::lookup_in_master.                                                   *)
(***************************************************************************)
\* The names passed to lookup_in_master, as the sequence of their labels and
\* dots, with their length in bytes: "gnu", "www.gnu", ".gnu", "www.gnu.",
\* "a.gnu.b", "gnu.www" and "www.org".
MasterNames ==
    { [name |-> <<"gnu">>, len |-> 3],
      [name |-> <<"www", ".", "gnu">>, len |-> 7],
      [name |-> <<".", "gnu">>, len |-> 4],
      [name |-> <<"www", ".", "gnu", ".">>, len |-> 8],
      [name |-> <<"a", ".", "gnu", ".", "b">>, len |-> 7],
      [name |-> <<"gnu", ".", "www">>, len |-> 7],
      [name |-> <<"www", ".", "org">>, len |-> 7] }

\* The positions of the dots of a name.
Dots(name) == {k \in DOMAIN name : name[k] = "."}

\* name.split('.'): the labels between the dots, the empty ones included.
Split(name) ==
    LET n == Cardinality(Dots(name))
        cut(j) == IF j = 0 THEN 0
                  ELSE IF j = n + 1 THEN Len(name) + 1
                  ELSE CHOOSE d \in Dots(name) :
                           Cardinality({e \in Dots(name) : e < d}) = j - 1
    IN [j \in 1..(n + 1) |->
           IF cut(j) = cut(j - 1) + 1 THEN "" ELSE name[cut(j - 1) + 1]]

\* MasterOptions with the third label not looked at.
MasterOptionsSecondGnu(labels) ==
    IF Len(labels) >= 2 /\ labels[2] = "gnu" THEN "NoDHT" ELSE "LocalMaster"

\* The match on (it.next(), it.next(), it.next()) of lookup_in_master, each
\* an Option: <<l>> is Some(l) and <<>> is None.
MasterOptions(labels) ==
    LET nth(j) == IF j <= Len(labels) THEN <<labels[j]>> ELSE <<>>
    IN IF nth(1) # <<>> /\ nth(2) = <<"gnu">> /\ nth(3) = <<>>
       THEN "NoDHT"
       ELSE "LocalMaster"

\* The master record before lookup_in_master is called.
MasterIdle ==
    [pc |-> "idle", name |-> <<>>, options |-> "", zone |-> 0,
     result |-> Pending]

\* The service name lookup_in_master asks the default ego for.
GnsMaster == CHOOSE x \in ServiceNames : x.name = "gns-master"

\* lookup_in_master is called: identity::get_default_ego is started.
LookupInMaster ==
    /\ master.pc = "idle"
    /\ master' = [master EXCEPT !.pc = "identity"]
    /\ UNCHANGED <<lookup_id, gns_open, gns_written, calls, overflow_checks,
                   idVars>>

\* identity::get_default_ego has failed, in connect or in the query: the
\* closure of lookup_in_master does not run.
LookupInMasterIdentityFailed ==
    /\ master.pc = "identity"
    /\ \/ /\ id_pc = "failed"
          /\ master' = [master EXCEPT
                 !.pc = "done",
                 !.result = Err("IdentityGetDefaultEgo", id_err.err)]
       \/ /\ gets > 0
          /\ get.result.kind = "err"
          /\ master' = [master EXCEPT
                 !.pc = "done",
                 !.result = Err("IdentityGetDefaultEgo", get.result.err)]
       \/ /\ gets > 0
          /\ get.result.kind = "panic"
          /\ master' = [master EXCEPT !.pc = "done", !.result = get.result]
    /\ UNCHANGED <<lookup_id, gns_open, gns_written, calls, overflow_checks,
                   idVars>>

\* The closure of lookup_in_master runs on the ego: the options are chosen
\* from the labels of the name x and gns::lookup is called, which connects
\* to the GNS service (`connected` tells whether that succeeds).
LookupInMasterThen(x, connected) ==
    /\ master.pc = "identity"
    /\ gets > 0
    /\ get.result.kind = "ok"
    /\ LET pk == GetPublic(get.result.val.pk)
           opt == MasterOptions(Split(x.name))
       IN master' = IF connected
                    THEN [master EXCEPT !.pc = "gns", !.name = x.name,
                                        !.options = opt, !.zone = pk]
                    ELSE [master EXCEPT !.pc = "done", !.name = x.name,
                                        !.options = opt, !.zone = pk,
                                        !.result = Err("GnsLookup", "Connect")]
    /\ UNCHANGED <<lookup_id, gns_open, gns_written, calls, overflow_checks,
                   idVars>>

\* The query gns::lookup builds from its arguments.
MasterQuery ==
    [name |-> master.name,
     len |-> (CHOOSE x \in MasterNames : x.name = master.name).len,
     zone |-> master.zone, options |-> master.options]

\* The closure of gns::lookup on the connected handle: gns.lookup of the
\* one query.
LookupInMasterGnsLookup ==
    /\ master.pc = "gns"
    /\ calls = <<>>
    /\ Lookup(<<MasterQuery>>)

\* gns.lookup has resolved: gns::lookup takes one record out of the result,
\* and lookup_in_master resolves with it or with the error.
LookupInMasterResolve ==
    /\ master.pc = "gns"
    /\ calls # <<>>
    /\ calls[1].pc = "done"
    /\ LET r == SingleShot(calls[1].result)
       IN master' = [master EXCEPT
              !.pc = "done",
              !.result = IF r.kind = "err" THEN Err("GnsLookup", r.err)
                         ELSE r]
    /\ UNCHANGED <<lookup_id, gns_open, gns_written, calls, overflow_checks,
                   idVars>>

\* The state after GNS::connect, and before IdentityService::connect.  No
\* u32 reaches its limit from a fresh handle within the bounds, so the two
\* kinds of build behave alike from here and one stands for both.
Init ==
    /\ lookup_id = 0
    /\ gns_open = TRUE
    /\ gns_written = <<>>
    /\ calls = <<>>
    /\ overflow_checks = FALSE
    /\ master = MasterIdle
    /\ id_pc = "start"
    /\ id_open = TRUE
    /\ id_sent = <<>>
    /\ egos = EmptyMap
    /\ id_err = Pending
    /\ sync_log = <<>>
    /\ gets = 0
    /\ get = [name |-> "", sent |-> FALSE, read |-> FALSE, reply |-> NoReply,
              result |-> Pending]

\* A GNS handle on which earlier lookup calls, all finished, have issued
\* 2^32 - 2 requests, in a build with or without overflow checks.
InitLong ==
    /\ lookup_id = U32Max - 1
    /\ gns_open = TRUE
    /\ gns_written = <<>>
    /\ calls = <<>>
    /\ overflow_checks \in BOOLEAN
    /\ master = MasterIdle
    /\ id_pc = "start"
    /\ id_open = TRUE
    /\ id_sent = <<>>
    /\ egos = EmptyMap
    /\ id_err = Pending
    /\ sync_log = <<>>
    /\ gets = 0
    /\ get = [name |-> "", sent |-> FALSE, read |-> FALSE, reply |-> NoReply,
              result |-> Pending]

NextGns ==
    \/ \E query \in Batches : Lookup(query)
    \/ \E i \in 1..MaxCalls : LookupLoopRead(i)
    \/ GnsDisconnect

NextId ==
    \/ \E connected \in BOOLEAN : Connect(connected)
    \/ \E f \in SyncFrames : ParseEgosRead(f)
    \/ \E x \in ServiceNames, f \in ReplyFrames, lost \in BOOLEAN :
          GetDefaultEgo(x, f, lost)
    \/ IdDisconnect

SpecId == Init /\ [][NextId]_vars

SpecGns == Init /\ [][NextGns]_vars

\* lookup_in_master from its call to its result: the identity steps run
\* while identity::get_default_ego is pending, which makes one query, and
\* the GNS steps while gns::lookup is.
NextMaster ==
    \/ LookupInMaster
    \/ /\ master.pc = "identity"
       /\ \/ \E connected \in BOOLEAN : Connect(connected)
          \/ \E f \in SyncFrames : ParseEgosRead(f)
          \/ /\ gets = 0
             /\ \E f \in ReplyFrames, lost \in BOOLEAN :
                    GetDefaultEgo(GnsMaster, f, lost)
          \/ IdDisconnect
    \/ LookupInMasterIdentityFailed
    \/ \E x \in MasterNames, connected \in BOOLEAN :
          LookupInMasterThen(x, connected)
    \/ LookupInMasterGnsLookup
    \/ /\ master.pc = "gns"
       /\ \/ LookupLoopRead(1)
          \/ GnsDisconnect
    \/ LookupInMasterResolve

SpecMaster == Init /\ [][NextMaster]_vars

SpecGnsLong == InitLong /\ [][NextGns]_vars

SpecGnsFair ==
    Init /\ [][NextGns]_vars /\ \A i \in 1..MaxCalls : WF_vars(LookupLoopRead(i))

(***************************************************************************)
(* Properties of GNS::lookup.                                               *)
(***************************************************************************)
\* The queries of call i whose name is longer than the maximum.
Oversized(i) ==
    {k \in DOMAIN calls[i].query :
        calls[i].query[k].len > GNUNET_DNSPARSER_MAX_NAME_LENGTH}

\* The positions in gns_written of the LOOKUP frames of call i.
WrittenFor(i) == {k \in DOMAIN gns_written : gns_written[k].id \in Ids(i)}

\* C1: a lookup on a batch of two or more queries completes successfully
\* only when every id issued for the batch has received a non-empty
\* LOOKUP_RESULT.
C1_CompleteOnlyWhenAllAnswered ==
    \A i \in DOMAIN calls :
        (calls[i].issued >= 2 /\ calls[i].result.kind = "ok")
            => Ids(i) \subseteq DOMAIN calls[i].hm

\* C2: whenever a lookup finishes after receiving results for ids of its
\* own batch, in whatever order they arrived, it returns a list with one
\* element per query, the k-th being the records received for the k-th
\* query's id.
C2_ResultsInQueryOrder ==
    \A i \in DOMAIN calls :
        LET c == calls[i]
        IN (c.pc = "done" /\ c.hm # EmptyMap /\ DOMAIN c.hm \subseteq Ids(i))
              => /\ c.result.kind = "ok"
                 /\ Len(c.result.val) = Len(c.query)
                 /\ \A k \in DOMAIN c.query :
                       /\ c.start_id + (k - 1) \in DOMAIN c.hm
                       /\ c.result.val[k] = c.hm[c.start_id + (k - 1)]

\* C3: a batch with exactly one oversized name fails with NameTooLong naming
\* that query, and no LOOKUP frame of the batch is written to the channel.
C3_OversizedNameSendsNothing ==
    \A i \in DOMAIN calls :
        Cardinality(Oversized(i)) = 1
            => /\ \E k \in Oversized(i) :
                     calls[i].result = Err("NameTooLong", calls[i].query[k].name)
               /\ WrittenFor(i) = {}

\* C5: in a batch with two or more outstanding requests, while results have
\* arrived for some but not all of its ids, the batch's promise is still
\* pending: a reply for B completes nothing on behalf of A.
C5_ReplyResolvesOnlyItsRequest ==
    \A i \in DOMAIN calls :
        LET got == DOMAIN calls[i].hm
        IN (got # {} /\ got \subseteq Ids(i) /\ got # Ids(i))
              => (calls[i].pc = "reading" /\ calls[i].result = Pending)

\* C6: a LOOKUP_RESULT whose id has no pending request is dropped: no step
\* adds to the accumulator of any call an id that no reading call issued.
C6_UnmatchedIdDropped ==
    [][\A i \in DOMAIN calls :
          \A id \in (DOMAIN calls'[i].hm) \ (DOMAIN calls[i].hm) :
             \E j \in DOMAIN calls : id \in Ids(j) /\ calls[j].pc = "reading"]_vars

\* Call i waits for results on a disconnected channel.
WaitingOnClosed(i) ==
    IF i \in DOMAIN calls THEN ~gns_open /\ calls[i].pc = "reading" ELSE FALSE

\* Call i has resolved with the error of a failed read.
FailedWithReadError(i) ==
    IF i \in DOMAIN calls
    THEN calls[i].pc = "done" /\ calls[i].result = Err("ReadMessage", "")
    ELSE FALSE

\* C7: once the GNS channel is disconnected, every lookup still waiting for
\* results (a batch of two requests, or two calls) eventually fails with the
\* read error; none stays pending.
C7_DisconnectFailsAllPending ==
    \A i \in 1..MaxCalls :
        WaitingOnClosed(i) ~> FailedWithReadError(i)

\* C7 witness: two lookups, one of them a batch of two requests, were both
\* waiting and both failed with the read error on the closed channel.
C7_Witness ==
    /\ ~gns_open
    /\ Len(calls) = 2
    /\ \E i \in DOMAIN calls : calls[i].issued >= 2
    /\ \A i \in DOMAIN calls : calls[i].result = Err("ReadMessage", "")

(***************************************************************************)
(* Properties of the identity protocol.                                     *)
(***************************************************************************)
\* C4: no public operation panics on remote input: every get_default_ego
\* call and every lookup ends in a success value or an error value.
C4_NoPanicOnRemoteInput ==
    /\ get.result.kind # "panic"
    /\ \A i \in DOMAIN calls : calls[i].result.kind # "panic"

\* Frame f is an UPDATE with end_of_list_flag = 0 that holds both u16
\* fields, a key and a name.
IsUpdate(f) == f.tpe = "UPDATE" /\ f.body = "full" /\ f.eol = 0

\* Frame f is an UPDATE that carries an ego: its name is valid UTF-8.
IsEgoUpdate(f) == IsUpdate(f) /\ f.name # BadUtf8

\* Frame f is the terminator: an UPDATE with end_of_list_flag # 0.
IsTerminator(f) == f.tpe = "UPDATE" /\ f.body # "short" /\ f.eol # 0

\* START was sent and the channel is still connected.
Syncing == id_open /\ id_sent # <<>>

\* The frames read so far are N UPDATE frames followed by the terminator.
SyncedStream ==
    /\ sync_log # <<>>
    /\ IsTerminator(sync_log[Len(sync_log)])
    /\ \A k \in 1..(Len(sync_log) - 1) : IsUpdate(sync_log[k])

\* The private keys of the UPDATE frames before position n of the log.
KeysBefore(n) == {sync_log[k].key : k \in 1..(n - 1)}

\* C8 as stated: N UPDATE frames followed by the terminator make connect
\* succeed with a mirror of exactly N egos, whatever the keys and names:
\* while only UPDATE frames have arrived on the open channel connect has not
\* failed and holds one ego per frame, and after the terminator it has
\* succeeded with exactly N egos.
C8_MirrorHasOneEgoPerUpdate ==
    /\ (Syncing /\ \A k \in DOMAIN sync_log : IsUpdate(sync_log[k]))
          => /\ id_pc = "sync"
             /\ Cardinality(DOMAIN egos) = Len(sync_log)
    /\ SyncedStream
          => /\ id_pc = "connected"
             /\ Cardinality(DOMAIN egos) = Len(sync_log) - 1

\* C8 as amended: N UPDATE frames with valid UTF-8 names followed by the
\* terminator make connect succeed with a mirror holding one ego per
\* distinct private key of the frames, stored under the hash of its public
\* key: exactly N egos when the N keys are pairwise distinct, none when the
\* terminator comes first.
C8_MirrorHasOneEgoPerKey ==
    /\ (Syncing /\ \A k \in DOMAIN sync_log : IsEgoUpdate(sync_log[k]))
          => /\ id_pc = "sync"
             /\ DOMAIN egos =
                   {HashOf(GetPublic(k)) : k \in KeysBefore(Len(sync_log) + 1)}
    /\ SyncedStream
          => LET n == Len(sync_log)
             IN /\ id_pc = "connected"
                /\ DOMAIN egos = {HashOf(GetPublic(k)) : k \in KeysBefore(n)}
                /\ Cardinality(DOMAIN egos) = Cardinality(KeysBefore(n))
                /\ Cardinality(KeysBefore(n)) = n - 1
                      => Cardinality(DOMAIN egos) = n - 1

\* C8 witness: two UPDATE frames with distinct keys and the terminator were
\* read, and connect succeeded with two egos.
C8_Witness ==
    /\ SyncedStream
    /\ Len(sync_log) = 3
    /\ id_pc = "connected"
    /\ Cardinality(DOMAIN egos) = 2

\* C9: a frame of another type than UPDATE read during sync is the last
\* frame read; connect has failed with UnexpectedMessageType carrying that
\* type, and no handle exists on which a query could be made.
C9_NonUpdateFailsSync ==
    \A k \in DOMAIN sync_log :
        sync_log[k].tpe # "UPDATE"
            => /\ k = Len(sync_log)
               /\ id_pc = "failed"
               /\ id_err = Err("UnexpectedMessageType", sync_log[k].tpe)
               /\ gets = 0

\* C9 witness: after an ego-carrying UPDATE, a RESULT_CODE frame was read
\* and connect failed.
C9_Witness ==
    /\ Len(sync_log) = 2
    /\ IsEgoUpdate(sync_log[1])
    /\ sync_log[2].tpe = "RESULT_CODE"
    /\ id_pc = "failed"

\* C10: the first UPDATE with end_of_list_flag # 0 is the last frame sync
\* reads; connect has succeeded, and the mirror holds only egos of the frames
\* before it: the terminator's own key and name bytes insert nothing.
C10_TerminatorEndsSync ==
    \A k \in DOMAIN sync_log :
        IsTerminator(sync_log[k])
            => /\ k = Len(sync_log)
               /\ id_pc = "connected"
               /\ \A id \in DOMAIN egos :
                     \E j \in 1..(k - 1) :
                        /\ IsEgoUpdate(sync_log[j])
                        /\ egos[id] = MakeEgo(sync_log[j].key, sync_log[j].name)

\* C10 witness: sync ended on a terminator that carries key and name bytes,
\* after an UPDATE for another key, and the terminator's key is not in the
\* mirror.
C10_Witness ==
    /\ Len(sync_log) = 2
    /\ IsTerminator(sync_log[2])
    /\ sync_log[2].body = "full"
    /\ id_pc = "connected"
    /\ DOMAIN egos # {}
    /\ HashOf(GetPublic(sync_log[2].key)) \notin DOMAIN egos

(***************************************************************************)
(* Properties of the identity protocol phases and of get_default_ego.      *)
(***************************************************************************)

\* The positions of the frames of type tpe among the frames sent.
SentOfType(tpe) == {k \in DOMAIN id_sent : id_sent[k].tpe = tpe}

\* C11: START is sent at most once and only as the first frame of the
\* connection; it has been sent whenever a frame was read or the handle
\* exists; and a GET_DEFAULT is sent only on a handle whose synchronization
\* ended with the terminator.
C11_PhasesOrdered ==
    /\ SentOfType("START") \subseteq {1}
    /\ (id_pc \in {"sync", "connected"} \/ sync_log # <<>>)
           => SentOfType("START") = {1}
    /\ SentOfType("GET_DEFAULT") # {}
           => /\ id_pc = "connected"
              /\ sync_log # <<>>
              /\ IsTerminator(sync_log[Len(sync_log)])

\* C11 witness: START, then the synchronization up to its terminator, then
\* two GET_DEFAULT requests.
C11_Witness ==
    /\ Len(id_sent) = 3
    /\ id_sent[1].tpe = "START"
    /\ SentOfType("GET_DEFAULT") = {2, 3}
    /\ Len(sync_log) >= 2
    /\ IsTerminator(sync_log[Len(sync_log)])

\* The service name `name` does not fit one GET_DEFAULT frame.
TooLong(name) ==
    \E x \in ServiceNames :
        x.name = name /\ GetDefaultFixed + x.len + 1 > U16Max

\* C12: a get_default_ego call whose name makes 8 + len + 1 exceed 16 bits
\* fails with NameTooLong carrying the name, sends no frame and reads none.
C12_NameTooLongSendsNothing ==
    [][(gets' # gets /\ TooLong(get'.name))
          => /\ get'.result = Err("NameTooLong", get'.name)
             /\ id_sent' = id_sent
             /\ id_open' = id_open
             /\ ~get'.sent
             /\ ~get'.read
             /\ get'.reply = NoReply]_vars

\* C12 witness: on an open channel a call with the shortest name that does
\* not fit failed with NameTooLong, and START is still the only frame sent.
C12_Witness ==
    /\ gets = 1
    /\ id_open
    /\ TooLong(get.name)
    /\ get.result = Err("NameTooLong", get.name)
    /\ Len(id_sent) = 1

\* C13: a complete SET_DEFAULT reply with reply_name_len # 0, reserved = 0
\* and the requested name returns the Ego the mirror holds under the hash of
\* the public key of the wire's private key; any other complete SET_DEFAULT
\* reply fails with InvalidResponse.
C13_SetDefaultReturnsMirrorEgo ==
    (get.read /\ get.reply.tpe = "SET_DEFAULT" /\ get.reply.body = "full")
        => IF get.reply.name_len # 0 /\ get.reply.zero = 0
              /\ get.reply.name = get.name
           THEN LET id == HashOf(GetPublic(get.reply.key))
                IN /\ id \in DOMAIN egos
                   /\ get.result = Ok(egos[id])
           ELSE get.result = Err("InvalidResponse", "")

\* C14: a RESULT_CODE reply never yields an Ego, and one with a complete
\* UTF-8 message fails with ServiceResponse carrying that message, whatever
\* the result code.
C14_ResultCodeIsServiceResponse ==
    (get.read /\ get.reply.tpe = "RESULT_CODE")
        => /\ get.result.kind = "err"
           /\ (get.reply.body = "full" /\ get.reply.name # BadUtf8)
                  => get.result = Err("ServiceResponse", get.reply.name)

\* C14 witness: a RESULT_CODE reply with result code 0 was returned as
\* ServiceResponse with its message.
C14_Witness ==
    /\ get.read
    /\ get.reply.tpe = "RESULT_CODE"
    /\ get.reply.code = 0
    /\ get.result = Err("ServiceResponse", "no default ego")

\* C15: a reply of a type other than RESULT_CODE and SET_DEFAULT fails the
\* call with InvalidResponse.
C15_OtherReplyIsInvalidResponse ==
    (get.read /\ get.reply.tpe \notin {"RESULT_CODE", "SET_DEFAULT"})
        => get.result = Err("InvalidResponse", "")

\* C15 witness: an UPDATE frame for a key of the mirror was read as the
\* reply and the call failed with InvalidResponse.
C15_Witness ==
    /\ get.read
    /\ get.reply.tpe = "UPDATE"
    /\ HashOf(GetPublic(get.reply.key)) \in DOMAIN egos
    /\ get.result = Err("InvalidResponse", "")

\* C16: once connect has returned the handle, no step changes the mirror.
C16_MirrorFrozenAfterConnect ==
    [][id_pc = "connected" => egos' = egos]_vars

\* C16 witness: two get_default_ego calls were made on a handle with a
\* non-empty mirror; the last one returned an ego of it, its reply naming
\* the service and not the ego.
C16_Witness ==
    /\ id_pc = "connected"
    /\ gets = MaxGets
    /\ get.result.kind = "ok"
    /\ get.result.val.name # <<get.reply.name>>
    /\ \E id \in DOMAIN egos : egos[id] = get.result.val

\* The value of the counter after call i issued its requests: the start id
\* of the next call, or lookup_id after the last call.
CounterAfter(i) ==
    IF i < Len(calls) THEN calls[i + 1].start_id ELSE lookup_id

\* C17: the ids of the requests written increase by one from each request to
\* the next, no two calls issued the same id, and the counter never wraps:
\* after each call it is start_id plus the number of requests the call
\* issued, and not below start_id.
C17_IdsIncreaseNeverWrap ==
    /\ \A k \in 1..(Len(gns_written) - 1) :
          /\ gns_written[k + 1].id = U32Add(gns_written[k].id, 1)
          /\ U32Less(gns_written[k].id, gns_written[k + 1].id)
    /\ \A i \in DOMAIN calls, j \in DOMAIN calls :
          i # j => Ids(i) \cap Ids(j) = {}
    /\ \A i \in DOMAIN calls :
          /\ CounterAfter(i) = U32Add(calls[i].start_id, calls[i].issued)
          /\ ~U32Less(CounterAfter(i), calls[i].start_id)

\* C18: a call whose lookup_loop has read a frame of a type other than
\* LOOKUP_RESULT is not reading any more and has failed with InvalidType
\* carrying that type.
C18_OtherTypeIsInvalidType ==
    \A i \in DOMAIN calls :
        calls[i].other_tpe # ""
            => /\ calls[i].pc = "done"
               /\ calls[i].result = Err("InvalidType", calls[i].other_tpe)

\* C18 witness: a call that had requests written failed with InvalidType on
\* a LOOKUP frame.
C18_Witness ==
    \E i \in DOMAIN calls :
        /\ calls[i].issued > 0
        /\ calls[i].other_tpe = "LOOKUP"
        /\ calls[i].result = Err("InvalidType", "LOOKUP")

\* C19: a call that is still reading has found no record; a call that
\* resolved successfully has found one: its accumulator and its result hold
\* only non-empty record lists, at least one, and the single-shot lookup
\* gets a record out of the result.
C19_FulfilledOnlyWithRecord ==
    \A i \in DOMAIN calls :
        /\ calls[i].pc = "reading"
               => calls[i].hm = EmptyMap /\ calls[i].result = Pending
        /\ calls[i].result.kind = "ok"
               => /\ calls[i].hm # EmptyMap
                  /\ \A id \in DOMAIN calls[i].hm : calls[i].hm[id] # <<>>
                  /\ calls[i].result.val # <<>>
                  /\ \A k \in DOMAIN calls[i].result.val :
                        calls[i].result.val[k] # <<>>
                  /\ SingleShot(calls[i].result).kind = "ok"

\* C19 witness: a lookup of one name on a fresh handle resolved with a
\* record, while a later call, with nothing found yet, still reads.
C19_Witness ==
    /\ Len(calls) = 2
    /\ calls[1].start_id = 0
    /\ Len(calls[1].query) = 1
    /\ SingleShot(calls[1].result).kind = "ok"
    /\ calls[2].pc = "reading"
    /\ calls[2].hm = EmptyMap

\* C20: at most one lookup_loop has a read outstanding on the GNS channel.
C20_OneReaderAtATime == Cardinality(Readers) <= 1

(***************************************************************************)
(* Properties of the frames written by GNS::lookup.                        *)
(***************************************************************************)

\* The queries of call i that pass the length check, in the order given.
Accepted(i) ==
    SelectSeq(calls[i].query,
              LAMBDA x : x.len <= GNUNET_DNSPARSER_MAX_NAME_LENGTH)

\* The first position in gns_written of a frame of call i.
FirstWritten(i) == CHOOSE k \in WrittenFor(i) : \A j \in WrittenFor(i) : k <= j

\* C21: the frames of one batch lie next to each other on the channel, none
\* or one per request issued, and the n-th of them is the whole frame of the
\* n-th accepted query: the message struct with the n-th id of the batch,
\* followed by that query's name.
C21_BatchWrittenAsWholeFrames ==
    \A i \in DOMAIN calls :
        /\ Cardinality(WrittenFor(i)) \in {0, calls[i].issued}
        /\ \A k \in WrittenFor(i) :
              LET n == k - FirstWritten(i) + 1
              IN /\ n <= Len(Accepted(i))
                 /\ gns_written[k] =
                        LookupMessage(U32Add(calls[i].start_id, n - 1),
                                      Accepted(i)[n])

\* C21 witness: two batches of two requests each were written, four frames.
C21_Witness ==
    /\ Len(calls) = 2
    /\ \A i \in DOMAIN calls : Cardinality(WrittenFor(i)) = 2
    /\ Len(gns_written) = 4

(***************************************************************************)
(* Properties of the entries of the identity mirror.                       *)
(***************************************************************************)

\* The positions in sync_log of the UPDATE frames that carry an ego whose
\* id is k.
UpdatesFor(k) ==
    {j \in DOMAIN sync_log :
        IsEgoUpdate(sync_log[j]) /\ HashOf(GetPublic(sync_log[j].key)) = k}

\* C22: the entry of the mirror under key k is an Ego with id k, k being the
\* hash of the public key of its private key, and with a name: the name of
\* the last UPDATE frame received for that private key.
C22_MirrorEntriesWellFormed ==
    \A k \in DOMAIN egos :
        /\ egos[k].id = k
        /\ egos[k].id = HashOf(GetPublic(egos[k].pk))
        /\ Len(egos[k].name) = 1
        /\ UpdatesFor(k) # {}
        /\ LET last == CHOOSE j \in UpdatesFor(k) :
                           \A i \in UpdatesFor(k) : i <= j
           IN /\ egos[k].pk = sync_log[last].key
              /\ egos[k].name = <<sync_log[last].name>>

\* C22 witness: two UPDATE frames carried the same private key with
\* different names, and the mirror holds one ego for it, with the name of
\* the second.
C22_Witness ==
    /\ Len(sync_log) >= 2
    /\ IsEgoUpdate(sync_log[1])
    /\ IsEgoUpdate(sync_log[2])
    /\ sync_log[1].key = sync_log[2].key
    /\ sync_log[1].name # sync_log[2].name
    /\ DOMAIN egos = {HashOf(GetPublic(sync_log[2].key))}
    /\ \A k \in DOMAIN egos : egos[k].name = <<sync_log[2].name>>

(***************************************************************************)
(* Properties of a rejected batch and of lookup_in_master.                 *)
(***************************************************************************)

\* C23: a GNS::lookup call that failed with NameTooLong issued no request
\* and left lookup_id where it was.
C23_NameTooLongKeepsLookupId ==
    \A i \in DOMAIN calls :
        calls[i].result.err = "NameTooLong"
            => /\ calls[i].issued = 0
               /\ CounterAfter(i) = calls[i].start_id

\* The name has exactly two labels, and the second is "gnu": one dot, and
\* "gnu" after it at the end of the name.
TwoLabelsSecondGnu(name) ==
    /\ Cardinality(Dots(name)) = 1
    /\ name # <<>>
    /\ name[Len(name)] = "gnu"

\* identity::get_default_ego has given lookup_in_master the default ego of
\* "gns-master".
GotMasterEgo ==
    /\ id_pc = "connected"
    /\ SentOfType("GET_DEFAULT") # {}
    /\ \A k \in SentOfType("GET_DEFAULT") : id_sent[k].name = "gns-master"
    /\ get.result.kind = "ok"

\* C24: gns::lookup is entered, and a LOOKUP written, only after the default
\* ego of "gns-master" was obtained; the one LOOKUP written carries the
\* name, the public key of that ego as zone, and the option NoDHT when the
\* name has exactly two labels with "gnu" the second, LocalMaster otherwise;
\* and after a failed identity step nothing was done on the GNS side.
C24_MasterLookupAfterEgo ==
    /\ (master.pc = "gns" \/ calls # <<>> \/ gns_written # <<>>)
           => GotMasterEgo
    /\ Len(gns_written) <= 1
    /\ \A k \in DOMAIN gns_written :
          /\ gns_written[k].tpe = "LOOKUP"
          /\ gns_written[k].name = master.name
          /\ gns_written[k].zone = GetPublic(get.result.val.pk)
          /\ gns_written[k].options =
                 IF TwoLabelsSecondGnu(master.name) THEN "NoDHT"
                 ELSE "LocalMaster"
    /\ (id_pc = "failed" \/ get.result.kind \in {"err", "panic"})
           => /\ gns_written = <<>>
              /\ calls = <<>>
              /\ master.pc \in {"identity", "done"}
              /\ master.pc = "done" => master.result.kind \in {"err", "panic"}

\* C24 witness: lookup_in_master of "www.gnu" resolved with a record, the
\* LOOKUP having been written with NoDHT after the GET_DEFAULT.
C24_Witness ==
    /\ master.pc = "done"
    /\ master.result.kind = "ok"
    /\ master.name = <<"www", ".", "gnu">>
    /\ Len(gns_written) = 1
    /\ gns_written[1].options = "NoDHT"
    /\ GotMasterEgo

====
